---------------------------- MODULE Spec2Model ----------------------------
(***************************************************************************)
(* A model of fluxnetCDF.py: the conversion of FLUXNET2015 station CSV     *)
(* files to netCDF.  Column names are sequences of one-character strings,  *)
(* so that the string operations of the program (split, slicing, substring *)
(* test, regular-expression match) are computed and not assumed.           *)
(***************************************************************************)
EXTENDS Integers, Sequences, FiniteSets, TLC

(***************************************************************************)
(* Bounds of the model.                                                    *)
(***************************************************************************)
MaxCols == 3
MaxDirs == 3

(***************************************************************************)
(* String operations of Python, on sequences of characters.                *)
(***************************************************************************)
Digits == {"0", "1", "2", "3", "4", "5", "6", "7", "8", "9"}

U == <<"_">>

\* str.isdigit(): non-empty and every character a digit
IsDigit(s) == Len(s) > 0 /\ \A i \in 1..Len(s) : s[i] \in Digits

\* sub in s
Contains(s, sub) ==
    \E i \in 0..(Len(s) - Len(sub)) :
        \A j \in 1..Len(sub) : s[i + j] = sub[j]

\* s.split('_'): the tokens between underscores, at least one token
RECURSIVE SplitFrom(_, _, _)
SplitFrom(s, i, cur) ==
    IF i > Len(s) THEN <<cur>>
    ELSE IF s[i] = "_" THEN <<cur>> \o SplitFrom(s, i + 1, <<>>)
    ELSE SplitFrom(s, i + 1, Append(cur, s[i]))

Split(s) == SplitFrom(s, 1, <<>>)

\* s[:-2]
DropLast2(s) == IF Len(s) <= 2 THEN <<>> ELSE SubSeq(s, 1, Len(s) - 2)

\* numbered_variable.replace('#', r'\d'): a pattern is a sequence of items,
\* a literal character or the class \d
DigitClass == "\\d"

ReplaceHash(name) ==
    [i \in 1..Len(name) |-> IF name[i] = "#" THEN DigitClass ELSE name[i]]

\* re.compile(pattern).match(s): the pattern matches at the START of s; what
\* follows the match in s is not looked at
ItemMatches(item, c) == IF item = DigitClass THEN c \in Digits ELSE item = c

ReMatch(pattern, s) ==
    /\ Len(s) >= Len(pattern)
    /\ \A i \in 1..Len(pattern) : ItemMatches(pattern[i], s[i])

\* sequence helpers
Range(s) == {s[i] : i \in 1..Len(s)}


(***************************************************************************)
(* Column names.                                                           *)
(***************************************************************************)
QC == <<"Q", "C">>
CUT == <<"C", "U", "T">>
XX == <<"X", "X">>

TA == <<"T", "A">>
TA_n == TA \o U \o <<"#">>
TA_n_QC == TA_n \o U \o QC
TA_1 == TA \o U \o <<"1">>
TA_12 == TA \o U \o <<"1", "2">>
TA_1_QC == TA_1 \o U \o QC
P == <<"P">>
NEE == <<"N", "E", "E">>
NEE_QC == NEE \o U \o QC
GPP == <<"G", "P", "P">>
R_CUT == <<"R">> \o U \o CUT
R_CUT_XX == R_CUT \o U \o XX
R_CUT_50 == R_CUT \o U \o <<"5", "0">>
R_CUT_75 == R_CUT \o U \o <<"7", "5">>
R_CUT_5 == R_CUT \o U \o <<"5">>
R_CUT_100 == R_CUT \o U \o <<"1", "0", "0">>
FOO_UNKNOWN == <<"F", "O", "O">> \o U \o <<"U", "N", "K", "N", "O", "W", "N">>

TIMESTAMP == <<"T", "I", "M", "E", "S", "T", "A", "M", "P">>
TIMESTAMP_START == TIMESTAMP \o U \o <<"S", "T", "A", "R", "T">>
TIMESTAMP_END == TIMESTAMP \o U \o <<"E", "N", "D">>

\* temporal aggregation codes; MM is not one the program accepts
HH == <<"H", "H">>
DD == <<"D", "D">>
WW == <<"W", "W">>
YY == <<"Y", "Y">>
MM == <<"M", "M">>

(***************************************************************************)
(* doc/variable_groups.csv: the rows (Variable, Group).  The file is data  *)
(* read by filter_output; the rows below are one content of it: a wildcard *)
(* name and its quality flag, a quality flag listed in a group other than  *)
(* QUALITY FLAGS, and names the legend does not list (P, the numbered      *)
(* R_CUT columns).                                                         *)
(***************************************************************************)
QUALITY_FLAGS == "QUALITY FLAGS"

Groups == {"MET", "FLUX", QUALITY_FLAGS}

VariableGroups ==
    << [Variable |-> TA,        Group |-> "MET"],
       [Variable |-> TA_n,      Group |-> "MET"],
       [Variable |-> P,         Group |-> "MET"],
       [Variable |-> TA_n_QC,   Group |-> QUALITY_FLAGS],
       [Variable |-> NEE,       Group |-> "FLUX"],
       [Variable |-> NEE_QC,    Group |-> "FLUX"],
       [Variable |-> GPP,       Group |-> "FLUX"],
       [Variable |-> R_CUT_50,  Group |-> "FLUX"],
       [Variable |-> R_CUT_75,  Group |-> "FLUX"],
       [Variable |-> R_CUT_5,   Group |-> "FLUX"],
       [Variable |-> R_CUT_100, Group |-> "FLUX"] >>

(***************************************************************************)
(* filter_output.  flags is the set of groups that output_variables.csv    *)
(* flags with 1; columns is df.columns.                                    *)
(***************************************************************************)
RECURSIVE Flatten(_)
Flatten(ss) == IF ss = <<>> THEN <<>> ELSE Head(ss) \o Flatten(Tail(ss))

\* variable_groups[variable_groups['Group'].isin(output_groups)]['Variable']
GroupVariables(flags) ==
    LET rows == SelectSeq(VariableGroups, LAMBDA r : r.Group \in flags)
    IN  [i \in 1..Len(rows) |-> rows[i].Variable]

\* the '#' names among them, in order
WildcardNames(flags) ==
    SelectSeq(GroupVariables(flags), LAMBDA n : Contains(n, <<"#">>))

\* list(filter(re.compile(nv.replace('#', r'\d')).match, df.columns))
MatchingColumns(name, columns) ==
    SelectSeq(columns, LAMBDA c : ReMatch(ReplaceHash(name), c))

\* numbered_variables after the loop and the flattening
NumberedVariables(flags, columns) ==
    LET w == WildcardNames(flags)
    IN  Flatten([i \in 1..Len(w) |-> MatchingColumns(w[i], columns)])

\* if 'QUALITY FLAGS' not in output_groups: drop every name containing 'QC'
ExcludeQC(flags, names) ==
    IF QUALITY_FLAGS \notin flags
    THEN SelectSeq(names, LAMBDA n : ~Contains(n, QC))
    ELSE names

\* a variant that excludes the QC names before the expansion adds its matches
OutputVariables_ExcludeFirst(flags, columns) ==
    ExcludeQC(flags, GroupVariables(flags)) \o NumberedVariables(flags, columns)

\* output_variables as handed to the column drop
OutputVariables(flags, columns) ==
    ExcludeQC(flags, GroupVariables(flags) \o NumberedVariables(flags, columns))

\* a variant with the operands of the difference swapped
ColumnsDifference_Swapped(columns, names) == Range(names) \ Range(columns)

\* df.columns.difference(list(output_variables))
ColumnsDifference(columns, names) == Range(columns) \ Range(names)

\* df.drop(columns=..., errors='ignore'): the columns not named, in order
DropColumns(columns, dropped) ==
    SelectSeq(columns, LAMBDA c : c \notin dropped)

filter_output(flags, columns) ==
    DropColumns(columns,
                ColumnsDifference(columns, OutputVariables(flags, columns)))

(***************************************************************************)
(* The legend (doc/variable_codes_FULLSET_20200504.csv): rows (Variable,   *)
(* Description, Units).  A cell of the Units column is NaN (empty cell), a *)
(* string, or a float (when every filled cell of the column is a number).  *)
(* The units that depend on the aggregation are rows that follow the       *)
(* variable's row and carry the aggregation code in the Variable column.   *)
(***************************************************************************)
NaN == [k |-> "nan", s |-> "nan"]
Str(x) == [k |-> "str", s |-> x]
Num(x) == [k |-> "num", s |-> x]

Row(var, desc, units) == [Variable |-> var, Description |-> desc, Units |-> units]

\* every block has the three rows the program reads
LegendRegular ==
    << Row(TA, "Air temperature", Str("deg C")),
       Row(NEE, "Net Ecosystem Exchange", NaN),
       Row(HH, "", Str("umolCO2 m-2 s-1")),
       Row(DD, "", Str("gC m-2 d-1")),
       Row(WW, "", Str("gC m-2 w-1")),
       Row(NEE_QC, "Quality flag for NEE", NaN),
       Row(HH, "", Str("0 = measured")),
       Row(DD, "", Str("fraction")),
       Row(WW, "", Str("fraction")),
       Row(R_CUT_XX, "Respiration, threshold percentile XX", NaN),
       Row(HH, "", Str("umolCO2 m-2 s-1 (R)")),
       Row(DD, "", Str("gC m-2 d-1 (R)")),
       Row(YY, "", Str("gC m-2 y-1 (R)")),
       Row(GPP, "Gross Primary Production", NaN),
       Row(DD, "", Str("gC m-2 d-1 (GPP)")),
       Row(WW, "", Str("gC m-2 w-1 (GPP)")),
       Row(YY, "", Str("gC m-2 y-1 (GPP)")) >>

\* blocks of one, four and two rows, the last one ending the file
LegendIrregular ==
    << Row(GPP, "Gross Primary Production", NaN),
       Row(HH, "", Str("umolCO2 m-2 s-1 (GPP)")),
       Row(NEE, "Net Ecosystem Exchange", NaN),
       Row(DD, "", Str("gC m-2 d-1")),
       Row(HH, "", Str("umolCO2 m-2 s-1")),
       Row(WW, "", Str("gC m-2 w-1")),
       Row(YY, "", Str("gC m-2 y-1")),
       Row(TA, "Air temperature", Str("deg C")),
       Row(R_CUT_XX, "Respiration, threshold percentile XX", NaN),
       Row(HH, "", Str("umolCO2 m-2 s-1 (R)")),
       Row(DD, "", Str("gC m-2 d-1 (R)")) >>

\* a Units column read as floats
LegendNumeric ==
    << Row(TA, "Air temperature", Num("1.0")),
       Row(NEE, "Net Ecosystem Exchange", NaN),
       Row(HH, "", Num("2.0")),
       Row(DD, "", Num("3.0")),
       Row(WW, "", Num("4.0")),
       Row(R_CUT_XX, "Respiration, threshold percentile XX", Num("5.0")) >>

Legends == {LegendRegular, LegendIrregular, LegendNumeric}

(***************************************************************************)
(* The body of the loop over ds.data_vars in flux2netcdf.                  *)
(***************************************************************************)
Unbound == <<"<unbound>">>
NoError == "none"
FillValue == "-9999.0"
NoFill == "False"

\* legend['Variable'].values
LegendVariables(lg) == {lg[i].Variable : i \in 1..Len(lg)}

\* legend[legend['Variable'] == v].index, in ascending order
RowsOf(lg, v) == SelectSeq([i \in 1..Len(lg) |-> i], LAMBDA i : lg[i].Variable = v)

\* the if / elif that binds v: the new value of v, or the exception raised
\* by variable.split('_')[-2] on a name without underscore; when neither
\* branch is taken v keeps what it held
BindV(lg, variable, v) ==
    LET toks == Split(variable)
    IN  IF variable \in LegendVariables(lg)
        THEN [err |-> NoError, v |-> variable]
        ELSE IF Len(toks) < 2
        THEN [err |-> "IndexError", v |-> v]
        ELSE IF toks[Len(toks) - 1] = CUT /\ IsDigit(toks[Len(toks)])
        THEN [err |-> NoError, v |-> DropLast2(variable) \o XX]
        ELSE [err |-> NoError, v |-> v]

\* legend.iloc[idx + 1 : idx + 4], clipped to the table
UnitBlock(lg, idx) ==
    SubSeq(lg, idx + 1, IF idx + 3 <= Len(lg) THEN idx + 3 ELSE Len(lg))

\* unit_block[unit_block['Variable'] == temporal_agg].Units.values[0], and ''
\* on IndexError
BlockUnit(lg, idx, temporal_agg) ==
    LET hits == SelectSeq(UnitBlock(lg, idx), LAMBDA r : r.Variable = temporal_agg)
    IN  IF hits = <<>> THEN Str("") ELSE hits[1].Units

\* the unit lookup for a bound v: np.isnan raises TypeError on a string, is
\* True on NaN and False on another float
LookupUnit(lg, v, temporal_agg) ==
    LET rows == RowsOf(lg, v)
    IN  IF rows = <<>> THEN [err |-> "IndexError", unit |-> NaN]
        ELSE IF lg[rows[1]].Units.k = "str" THEN [err |-> "TypeError", unit |-> NaN]
        ELSE IF lg[rows[1]].Units.k = "nan"
        THEN [err |-> NoError, unit |-> BlockUnit(lg, rows[1], temporal_agg)]
        ELSE [err |-> NoError, unit |-> lg[rows[1]].Units]

\* a variant that marks the data variable as having no fill value
VariableAttrs_NoFill(lg, v, unit) ==
    [long_name |-> lg[RowsOf(lg, v)[1]].Description,
     units |-> unit,
     _FillValue |-> NoFill]

\* ds[variable].attrs = {...}
VariableAttrs(lg, v, unit) ==
    [long_name |-> lg[RowsOf(lg, v)[1]].Description,
     units |-> unit,
     _FillValue |-> FillValue]

\* one pass of the loop body: the exception it ends in (or none), the value
\* v holds afterwards and the attributes it sets
ResolveVariable(lg, temporal_agg, variable, v) ==
    LET b == BindV(lg, variable, v)
        u == LookupUnit(lg, b.v, temporal_agg)
        none == [long_name |-> "", units |-> NaN, _FillValue |-> ""]
    IN  IF b.err # NoError THEN [err |-> b.err, v |-> v, attrs |-> none]
        ELSE IF b.v = Unbound THEN [err |-> "UnboundLocalError", v |-> v, attrs |-> none]
        ELSE IF u.err # NoError THEN [err |-> u.err, v |-> b.v, attrs |-> none]
        ELSE [err |-> NoError, v |-> b.v, attrs |-> VariableAttrs(lg, b.v, u.unit)]

(***************************************************************************)
(* The files the program reads.  A directory of the data root is its name  *)
(* (prefix = name[0:3], code = name[4:10]; the site code occurs nowhere    *)
(* else in the name), the CSV files in it (site, set type and aggregation  *)
(* are fields 1, 3 and 4 of the file name) and the data columns of those   *)
(* files.  Every CSV file carries the timestamp columns of its aggregation.*)
(***************************************************************************)
ValidAggs == {HH, DD, WW, YY}
ValidSetTypes == {"FULLSET", "SUBSET"}

File(site, st, agg) == [site |-> site, settype |-> st, agg |-> agg]

AllFiles(site) == {File(site, st, agg) : st \in ValidSetTypes, agg \in ValidAggs}

Dir(prefix, code, files, cols) ==
    [prefix |-> prefix, code |-> code, files |-> files, cols |-> cols]

\* doc/site_info.csv, indexed by site
SiteInfo ==
    [c \in {"AT-Neu", "CH-Cha", "DE-Tha"} |->
        [lat |-> "47.1", lon |-> "11.3", elev |-> "970", country |-> "AT", pft |-> "GRA"]]

DirCH == Dir("FLX", "CH-Cha", AllFiles("CH-Cha"), <<NEE, NEE_QC>>)
DirDE == Dir("FLX", "DE-Tha", {File("DE-Tha", "FULLSET", HH)}, <<GPP>>)
DirUS == Dir("FLX", "US-Ha1", AllFiles("US-Ha1"), <<NEE>>)
DirAA == Dir("FLX", "AA-Flx", AllFiles("AA-Flx"), <<NEE>>)
DirOld == Dir("OLD", "CH-Cha", {}, <<>>)
DirAT(cols) == Dir("FLX", "AT-Neu", AllFiles("AT-Neu"), cols)

DirKinds == {DirCH, DirDE, DirUS, DirAA, DirOld, DirAT(<<NEE, R_CUT_50>>)}

\* the listings of the data root: up to MaxDirs directories, in any order
Listings ==
    UNION {{l \in [1..n -> DirKinds] : \A a, b \in 1..n : a # b => l[a] # l[b]}
            : n \in 0..MaxDirs}

\* the data columns a station file may hold: up to MaxCols columns, in the
\* order of ColumnUniverse or in the reverse order
ColumnUniverse ==
    <<TA_1, NEE, TA_1_QC, P, GPP, TA_12, R_CUT_50, NEE_QC, R_CUT_5, TA,
      R_CUT_75, R_CUT_100, FOO_UNKNOWN>>

RECURSIVE Pick(_, _)
Pick(univ, idx) ==
    IF univ = <<>> THEN <<>>
    ELSE Pick(SubSeq(univ, 1, Len(univ) - 1), idx)
         \o (IF Len(univ) \in idx THEN <<univ[Len(univ)]>> ELSE <<>>)

Reverse(q) == [k \in 1..Len(q) |-> q[Len(q) + 1 - k]]

Tables ==
    LET picks == {Pick(ColumnUniverse, idx) :
                    idx \in {x \in SUBSET (1..Len(ColumnUniverse)) :
                                Cardinality(x) <= MaxCols}}
    IN  picks \cup {Reverse(t) : t \in picks}

\* the columns of the CSV file: the timestamp columns, then the data
CsvColumns(agg, cols) ==
    (IF agg = HH THEN <<TIMESTAMP_START, TIMESTAMP_END>> ELSE <<TIMESTAMP>>) \o cols

\* len(str(dframe[time_col_name][0])) of the file
TimestampDigits(agg) == IF agg = HH THEN 12 ELSE IF agg = YY THEN 4 ELSE 8

\* check_date_format: the strftime format, or none bound
check_date_format(digits) ==
    IF digits = 4 THEN "%Y"
    ELSE IF digits = 8 THEN "%Y%m%d"
    ELSE IF digits = 12 THEN "%Y%m%d%H%M"
    ELSE "<unbound>"

(***************************************************************************)
(* The state.  The first six variables are the inputs: the arguments of    *)
(* main and the files read.  The others are the position in main and in    *)
(* flux2netcdf, their local variables and the files written.               *)
(***************************************************************************)
VARIABLES
    legend,             \* the legend, read at import
    listing,            \* os.listdir(path)
    argSite,            \* main's argument site
    temporal_agg,       \* main's argument temporal_agg
    settype,            \* main's argument settype
    flags,              \* the groups flagged 1 in output_variables.csv
    pc,                 \* the statement to run next
    all_sites,          \* main: all_sites
    next_site,          \* main: the index in all_sites of the next iteration
    attempted,          \* the indexes of all_sites flux2netcdf was called for
    site,               \* flux2netcdf: site
    looked,             \* find_flux_file has listed the data root in this call
    fname,              \* flux2netcdf: the file found, a sequence of at most one
    readDone,           \* the station file was read in this call
    columns,            \* flux2netcdf: df.columns
    tableCols,          \* filter_output: df.columns as it was passed in
    numbered_variables, \* filter_output: numbered_variables
    data_vars,          \* flux2netcdf: list(ds.data_vars)
    attrs,              \* ds[variable].attrs of the variables the loop has passed
    v,                  \* flux2netcdf: v
    coords,             \* the attrs of ds['lon'], ds['lat'] and ds.time, once set
    written,            \* the netCDF files written: (site, temporal_agg)
    error,              \* the exception that ended the run, or none
    errorAt             \* the statement that raised it

inputs == <<legend, listing, argSite, temporal_agg, settype, flags>>
driver == <<all_sites, next_site, attempted>>
locals == <<site, looked, fname, readDone, columns, tableCols, numbered_variables,
            data_vars, attrs, v, coords>>
vars == <<inputs, driver, locals, pc, written, error, errorAt>>

\* the locals of flux2netcdf before a call
NoLocals ==
    /\ looked' = FALSE
    /\ fname' = <<>>
    /\ readDone' = FALSE
    /\ columns' = <<>>
    /\ tableCols' = <<>>
    /\ numbered_variables' = <<>>
    /\ data_vars' = <<>>
    /\ attrs' = <<>>
    /\ v' = Unbound
    /\ coords' = <<>>

Running ==
    /\ pc = "main"
    /\ all_sites = <<>>
    /\ next_site = 1
    /\ attempted = {}
    /\ site = ""
    /\ looked = FALSE
    /\ fname = <<>>
    /\ readDone = FALSE
    /\ columns = <<>>
    /\ tableCols = <<>>
    /\ numbered_variables = <<>>
    /\ data_vars = <<>>
    /\ attrs = <<>>
    /\ v = Unbound
    /\ coords = <<>>
    /\ written = {}
    /\ error = NoError
    /\ errorAt = ""

\* one station with any table, legend and flags, converted with valid arguments
InitStation ==
    /\ legend \in Legends
    /\ \E t \in Tables : listing = <<DirAT(t)>>
    /\ argSite = "AT-Neu"
    /\ temporal_agg \in ValidAggs
    /\ settype = "FULLSET"
    /\ flags \in SUBSET Groups
    /\ Running

\* any listing and any arguments, over stations with fixed tables
InitDriver ==
    /\ legend = LegendRegular
    /\ listing \in Listings
    /\ argSite \in {"all", "CH-Cha", "ZZ-Non"}
    /\ temporal_agg \in ValidAggs \cup {MM}
    /\ settype \in ValidSetTypes \cup {"BAD"}
    /\ flags = {"FLUX"}
    /\ Running

Init == InitStation \/ InitDriver

\* an uncaught exception ends the run
Raise(exc, at) ==
    /\ pc' = "crashed"
    /\ error' = exc
    /\ errorAt' = at

Continue(to) ==
    /\ pc' = to
    /\ UNCHANGED <<error, errorAt>>

(***************************************************************************)
(* main                                                                    *)
(***************************************************************************)
\* all_sites = [x[4:10] for x in os.listdir(path) if x[0:3] == 'FLX']
AllSites(l) ==
    LET flx == SelectSeq(l, LAMBDA d : d.prefix = "FLX")
    IN  [k \in 1..Len(flx) |-> flx[k].code]

\* if site == 'all': ... else: flux2netcdf(path, site, temporal_agg, settype)
MainEnter ==
    /\ pc = "main"
    /\ IF argSite = "all"
       THEN /\ all_sites' = AllSites(listing)
            /\ site' = site
            /\ Continue("for")
       ELSE /\ all_sites' = all_sites
            /\ site' = argSite
            /\ Continue("flux2netcdf")
    /\ UNCHANGED <<inputs, next_site, attempted, looked, fname, readDone, columns,
                   tableCols, numbered_variables, data_vars, attrs, v, coords, written>>

\* one turn of the for loop: the next site is printed, skipped when it is
\* 'AA-Flx', and otherwise handed to flux2netcdf; after the last one main returns
MainFor ==
    /\ pc = "for"
    /\ IF next_site > Len(all_sites)
       THEN /\ Continue("done")
            /\ UNCHANGED <<next_site, attempted, site>>
       ELSE /\ next_site' = next_site + 1
            /\ site' = all_sites[next_site]
            /\ IF all_sites[next_site] = "AA-Flx"
               THEN Continue("for") /\ attempted' = attempted
               ELSE Continue("flux2netcdf") /\ attempted' = attempted \cup {next_site}
    /\ UNCHANGED <<inputs, all_sites, looked, fname, readDone, columns, tableCols,
                   numbered_variables, data_vars, attrs, v, coords, written>>

\* where a call of flux2netcdf returns to
AfterCall == IF argSite = "all" THEN "for" ELSE "done"

(***************************************************************************)
(* flux2netcdf                                                             *)
(***************************************************************************)
\* if temporal_agg not in ['HH', 'DD', 'WW', 'YY']: raise
CheckAggregation ==
    /\ pc = "flux2netcdf"
    /\ IF temporal_agg \notin ValidAggs
       THEN Raise("TemporalResolutionError", "flux2netcdf")
       ELSE Continue("find_flux_file")
    /\ NoLocals
    /\ UNCHANGED <<inputs, driver, site, written>>

\* [dir for dir in os.listdir(path) if site in dir]
FluxDirs(l, s) == SelectSeq(l, LAMBDA d : d.code = s)

\* the files of the directory with the site, the set type and the aggregation
\* asked for
MatchingFiles(d, s, st, agg) ==
    {f \in d.files : f.site = s /\ f.settype = st /\ f.agg = agg}

\* a variant that lists the data root before it checks the set type
FindResult_ListFirst(l, s, agg, st) ==
    LET dirs == FluxDirs(l, s)
    IN  IF Len(dirs) # 1
        THEN [err |-> "TypeError", looked |-> TRUE, fname |-> <<>>]
        ELSE IF st \notin ValidSetTypes
        THEN [err |-> "SetTypeError", looked |-> TRUE, fname |-> <<>>]
        ELSE IF MatchingFiles(dirs[1], s, st, agg) = {}
        THEN [err |-> "IndexError", looked |-> TRUE, fname |-> <<>>]
        ELSE [err |-> NoError, looked |-> TRUE,
              fname |-> <<[dir |-> dirs[1],
                           file |-> CHOOSE f \in MatchingFiles(dirs[1], s, st, agg) : TRUE]>>]

\* find_flux_file: what it raises (raise SiteCodeError, without the argument
\* its constructor needs, is a TypeError; fname[0] of an empty list an
\* IndexError), whether it came to list the data root, and the file found
FindResult(l, s, agg, st) ==
    LET dirs == FluxDirs(l, s)
    IN  IF st \notin ValidSetTypes
        THEN [err |-> "SetTypeError", looked |-> FALSE, fname |-> <<>>]
        ELSE IF Len(dirs) # 1
        THEN [err |-> "TypeError", looked |-> TRUE, fname |-> <<>>]
        ELSE IF MatchingFiles(dirs[1], s, st, agg) = {}
        THEN [err |-> "IndexError", looked |-> TRUE, fname |-> <<>>]
        ELSE [err |-> NoError, looked |-> TRUE,
              fname |-> <<[dir |-> dirs[1],
                           file |-> CHOOSE f \in MatchingFiles(dirs[1], s, st, agg) : TRUE]>>]

FindFluxFile ==
    /\ pc = "find_flux_file"
    /\ LET r == FindResult(listing, site, temporal_agg, settype)
       IN  /\ looked' = r.looked
           /\ fname' = r.fname
           /\ IF r.err # NoError
              THEN Raise(r.err, "find_flux_file")
              ELSE Continue("read_csv")
    /\ UNCHANGED <<inputs, driver, site, readDone, columns, tableCols,
                   numbered_variables, data_vars, attrs, v, coords, written>>

\* df = pd.read_csv(...); metadata = site_info.loc[site]: a KeyError for a site
\* the registry does not list, which the except clause does not catch
ReadCsv ==
    /\ pc = "read_csv"
    /\ readDone' = TRUE
    /\ columns' = CsvColumns(fname[1].file.agg, fname[1].dir.cols)
    /\ IF site \notin DOMAIN SiteInfo
       THEN Raise("KeyError", "read_csv")
       ELSE Continue("time_index")
    /\ UNCHANGED <<inputs, driver, site, looked, fname, tableCols, numbered_variables,
                   data_vars, attrs, v, coords, written>>

\* the time column is chosen by the aggregation, TIMESTAMP_END dropped for HH,
\* the format checked and the time column made the index
TimeIndex(agg, cols) ==
    LET time_col_name == IF agg = HH THEN TIMESTAMP_START ELSE TIMESTAMP
        kept == IF agg = HH THEN DropColumns(cols, {TIMESTAMP_END}) ELSE cols
    IN  IF agg = HH /\ TIMESTAMP_END \notin Range(cols)
        THEN [err |-> "KeyError", columns |-> cols]
        ELSE IF time_col_name \notin Range(kept)
        THEN [err |-> "KeyError", columns |-> kept]
        ELSE IF check_date_format(TimestampDigits(fname[1].file.agg)) = "<unbound>"
        THEN [err |-> "UnboundLocalError", columns |-> kept]
        ELSE [err |-> NoError, columns |-> DropColumns(kept, {time_col_name})]

SetTimeIndex ==
    /\ pc = "time_index"
    /\ LET r == TimeIndex(temporal_agg, columns)
       IN  /\ columns' = r.columns
           /\ IF r.err # NoError
              THEN Raise(r.err, "time_index")
              ELSE Continue("filter_output")
    /\ UNCHANGED <<inputs, driver, site, looked, fname, readDone, tableCols,
                   numbered_variables, data_vars, attrs, v, coords, written>>

\* df = filter_output(df); ds = df.to_xarray()
FilterOutput ==
    /\ pc = "filter_output"
    /\ tableCols' = columns
    /\ numbered_variables' = NumberedVariables(flags, columns)
    /\ columns' = filter_output(flags, columns)
    /\ data_vars' = columns'
    /\ Continue("resolve")
    /\ UNCHANGED <<inputs, driver, site, looked, fname, readDone, attrs, v, coords,
                   written>>

\* one pass of the loop over ds.data_vars
ResolveStep ==
    /\ pc = "resolve"
    /\ Len(attrs) < Len(data_vars)
    /\ LET r == ResolveVariable(legend, temporal_agg, data_vars[Len(attrs) + 1], v)
       IN  /\ v' = r.v
           /\ IF r.err # NoError
              THEN Raise(r.err, "resolve") /\ attrs' = attrs
              ELSE Continue("resolve") /\ attrs' = Append(attrs, r.attrs)
    /\ UNCHANGED <<inputs, driver, site, looked, fname, readDone, columns, tableCols,
                   numbered_variables, data_vars, coords, written>>

\* the attrs of ds['lon'], ds['lat'] and ds.time
CoordAttrs ==
    [lon |-> [standard_name |-> "longitude", long_name |-> "longitude coordinate",
              units |-> "degrees_east", _FillValue |-> NoFill],
     lat |-> [standard_name |-> "latitude", long_name |-> "latitude coordinate",
              units |-> "degrees_north", _FillValue |-> NoFill],
     time |-> [long_name |-> "time", _FillValue |-> NoFill]]

\* after the loop: the coordinates and the global attributes
AttachSiteMetadata ==
    /\ pc = "resolve"
    /\ Len(attrs) = Len(data_vars)
    /\ coords' = <<CoordAttrs>>
    /\ Continue("to_netcdf")
    /\ UNCHANGED <<inputs, driver, site, looked, fname, readDone, columns, tableCols,
                   numbered_variables, data_vars, attrs, v, written>>

\* ds.to_netcdf(f'netcdf/FLX_{site}_{temporal_agg}.nc', ...) and the return
ToNetcdf ==
    /\ pc = "to_netcdf"
    /\ written' = written \cup {<<site, temporal_agg>>}
    /\ Continue(AfterCall)
    /\ UNCHANGED <<inputs, driver, locals>>

Next ==
    \/ MainEnter
    \/ MainFor
    \/ CheckAggregation
    \/ FindFluxFile
    \/ ReadCsv
    \/ SetTimeIndex
    \/ FilterOutput
    \/ ResolveStep
    \/ AttachSiteMetadata
    \/ ToNetcdf

Spec == Init /\ [][Next]_vars

(***************************************************************************)
(* Properties.                                                             *)
(***************************************************************************)
\* filter_output has returned in the current call of flux2netcdf
Filtered ==
    \/ pc \in {"resolve", "to_netcdf"}
    \/ pc = "crashed" /\ errorAt = "resolve"

\* the loop over ds.data_vars raised while it was at data_vars[i]
RaisedAt(i) ==
    /\ pc = "crashed"
    /\ errorAt = "resolve"
    /\ i = Len(attrs) + 1

\* C1: when the group QUALITY FLAGS is not enabled, no column whose name
\* contains 'QC' is among the columns filter_output keeps, whether the name
\* was listed in an enabled group or came in by the '#' expansion.
C1_NoQCColumnKept ==
    (Filtered /\ QUALITY_FLAGS \notin flags) =>
        \A c \in Range(columns) \cup Range(data_vars) : ~Contains(c, QC)

\* a table with a QC column listed in an enabled group and a QC column added
\* by the expansion, QUALITY FLAGS off, and a column kept
C1_Witness ==
    /\ Filtered
    /\ QUALITY_FLAGS \notin flags
    /\ \E c \in Range(tableCols) \cap Range(GroupVariables(flags)) : Contains(c, QC)
    /\ \E c \in Range(numbered_variables) : Contains(c, QC)
    /\ data_vars # <<>>

\* C2: the columns filter_output keeps are exactly the columns of the table
\* that are allowed variables, in the table's order; none is introduced and
\* an allowed variable the table lacks yields no column and no error.
C2_KeepsIntersection ==
    Filtered =>
        /\ Range(columns) = Range(tableCols) \cap Range(OutputVariables(flags, tableCols))
        /\ columns = SelectSeq(tableCols, LAMBDA c : c \in Range(columns))
        /\ data_vars = columns

\* a column kept, a column dropped and an allowed variable the table lacks
C2_Witness ==
    /\ Filtered
    /\ columns # <<>>
    /\ Range(tableCols) \ Range(columns) # {}
    /\ Range(OutputVariables(flags, tableCols)) \ Range(tableCols) # {}

\* the name has the form <base>_CUT_<digits>
CutForm(name) ==
    LET toks == Split(name)
    IN  Len(toks) >= 2 /\ toks[Len(toks) - 1] = CUT /\ IsDigit(toks[Len(toks)])

\* <base>_CUT_<digits> rewritten to <base>_CUT_XX
CutCanonical(name) ==
    LET toks == Split(name)
    IN  SubSeq(name, 1, Len(name) - Len(toks[Len(toks)])) \o XX

\* the name has no catalog match of any kind
Unmatched(name) == name \notin LegendVariables(legend) /\ ~CutForm(name)

\* C3: a retained column with no catalog match is dropped from the output
\* without raising: the loop does not raise at it, and it is not among the
\* variables of the dataset written.
C3_UnmatchedDropped ==
    /\ \A i \in 1..Len(data_vars) : RaisedAt(i) => ~Unmatched(data_vars[i])
    /\ pc = "to_netcdf" => \A i \in 1..Len(data_vars) : ~Unmatched(data_vars[i])

\* the description of the legend row of a canonical name
DescriptionOf(name) == legend[RowsOf(legend, name)[1]].Description

\* C4: a retained column <base>_CUT_<digits> that is not a legend Variable,
\* with any number of digits, gets the description of <base>_CUT_XX, and the
\* loop does not raise at it.
C4_CutReplicates ==
    \A i \in 1..Len(data_vars) :
        (/\ CutForm(data_vars[i])
         /\ data_vars[i] \notin LegendVariables(legend)
         /\ CutCanonical(data_vars[i]) \in LegendVariables(legend)
         /\ legend[RowsOf(legend, CutCanonical(data_vars[i]))[1]].Units.k # "str")
        => /\ ~RaisedAt(i)
           /\ i <= Len(attrs) =>
                attrs[i].long_name = DescriptionOf(CutCanonical(data_vars[i]))

\* the UnitBlock of the legend row idx: the rows that follow it for as long
\* as their Variable is an aggregation code
RECURSIVE OwnBlock(_, _)
OwnBlock(lg, idx) ==
    IF idx + 1 <= Len(lg) /\ lg[idx + 1].Variable \in ValidAggs
    THEN <<lg[idx + 1]>> \o OwnBlock(lg, idx + 1)
    ELSE <<>>

\* the unit of the variable's own block for the aggregation, '' without one
OwnUnit(lg, name, agg) ==
    LET hits == SelectSeq(OwnBlock(lg, RowsOf(lg, name)[1]), LAMBDA r : r.Variable = agg)
    IN  IF hits = <<>> THEN Str("") ELSE hits[1].Units

\* C5: for a legend variable without scalar unit the unit attached is the
\* entry of its own UnitBlock for the aggregation asked for, and '' when the
\* block has none, for blocks of any size.
C5_UnitFromOwnBlock ==
    \A i \in 1..Len(attrs) :
        (/\ data_vars[i] \in LegendVariables(legend)
         /\ legend[RowsOf(legend, data_vars[i])[1]].Units = NaN)
        => attrs[i].units = OwnUnit(legend, data_vars[i], temporal_agg)

\* the run has ended: main returned, or an exception left it
Ended == pc \in {"done", "crashed"}

\* C6: with site == 'all', when the run has ended after a station failed in
\* find_flux_file (set type, directories, file) or for a site the registry
\* lacks, flux2netcdf was called for every site of the list other than
\* 'AA-Flx', also for those after the failing one, and the files written
\* for earlier sites are in place.
C6_LaterSitesAttempted ==
    (argSite = "all" /\ Ended /\ errorAt \in {"", "find_flux_file", "read_csv"}) =>
        \A k \in 1..Len(all_sites) : all_sites[k] # "AA-Flx" => k \in attempted

\* flux2netcdf has passed its check of temporal_agg in the current call
PastAggCheck ==
    pc \in {"find_flux_file", "read_csv", "time_index", "filter_output", "resolve",
            "to_netcdf"}

\* C7: an aggregation outside {HH, DD, WW, YY} ends the call in
\* TemporalResolutionError, a valid one with a set type outside {FULLSET,
\* SUBSET} in SetTypeError; either is raised before the data root is listed
\* or a station file read, and nothing is written.
C7_ArgumentErrors ==
    /\ PastAggCheck => temporal_agg \in ValidAggs
    /\ (PastAggCheck /\ pc # "find_flux_file") => settype \in ValidSetTypes
    /\ (pc = "crashed" /\ temporal_agg \notin ValidAggs)
            => error = "TemporalResolutionError"
    /\ (pc = "crashed" /\ temporal_agg \in ValidAggs /\ settype \notin ValidSetTypes)
            => error = "SetTypeError"
    /\ error \in {"TemporalResolutionError", "SetTypeError"}
            => ~looked /\ ~readDone /\ fname = <<>> /\ written = {}

\* both arguments invalid, and the call ended
C7_Witness ==
    /\ pc = "crashed"
    /\ temporal_agg \notin ValidAggs
    /\ settype \notin ValidSetTypes
    /\ listing # <<>>

\* a valid aggregation with an invalid set type, and the call ended
C7_WitnessSetType ==
    /\ pc = "crashed"
    /\ error = "SetTypeError"
    /\ listing # <<>>

\* C8: in a dataset about to be written every data variable has the
\* attributes long_name, units and _FillValue = -9999.0, and lon, lat and
\* time have _FillValue False.
C8_FillValues ==
    pc = "to_netcdf" =>
        /\ Len(attrs) = Len(data_vars)
        /\ \A i \in 1..Len(attrs) :
              /\ DOMAIN attrs[i] = {"long_name", "units", "_FillValue"}
              /\ attrs[i]._FillValue = FillValue
        /\ coords # <<>>
        /\ \A c \in {"lon", "lat", "time"} :
              /\ coords[1][c]._FillValue = NoFill
              /\ coords[1][c]._FillValue # FillValue

\* a dataset of two variables about to be written
C8_Witness ==
    /\ pc = "to_netcdf"
    /\ Len(data_vars) >= 2

\* the whole column name is the wildcard name with each '#' a digit
FullMatch(name, c) == Len(c) = Len(name) /\ ReMatch(ReplaceHash(name), c)

\* C9: the '#' expansion adds exactly the table's columns whose whole name
\* is an enabled-group wildcard name with each '#' replaced by one digit.
C9_WholeNameExpansion ==
    Filtered =>
        Range(numbered_variables) =
            {c \in Range(tableCols) :
                \E k \in 1..Len(VariableGroups) :
                    /\ VariableGroups[k].Group \in flags
                    /\ Contains(VariableGroups[k].Variable, <<"#">>)
                    /\ FullMatch(VariableGroups[k].Variable, c)}

\* C10: the description attached to a column is that of the canonical
\* definition resolved from the column's own name, never that of the
\* variable resolved for an earlier column.
C10_OwnDefinition ==
    \A i \in 1..Len(attrs) :
        LET own == BindV(legend, data_vars[i], Unbound).v
        IN  /\ own \in LegendVariables(legend)
            /\ attrs[i].long_name = DescriptionOf(own)

=============================================================================
